---- MODULE Spec2Model ----
(***************************************************************************)
(* A model of cvxpy's parameterized matrix stuffing:                       *)
(*   cvxpy/expressions/constants/parameter.py       (treat_params_as_affine)*)
(*   cvxpy/reductions/matrix_stuffing.py            (MatrixStuffing.invert) *)
(*   cvxpy/reductions/dcp2cone/cone_matrix_stuffing.py                      *)
(*                               (ParamConeProg, ConeMatrixStuffing.apply)  *)
(*                                                                         *)
(* Python values are modelled as follows.                                  *)
(*   None / a value      : <<>> / <<v>>  (an optional is a sequence)        *)
(*   a numpy array       : [shape |-> <<d1,..>>, data |-> C-order entries]  *)
(*   a dict              : a function whose domain is the key set           *)
(*   a raised exception  : the field "raised" of the call's result          *)
(***************************************************************************)
EXTENDS Integers, Sequences, FiniteSets, TLC

VARIABLES
    is_constant,    \* parameter id -> Parameter._is_constant
    scopes,         \* stack of suspended treat_params_as_affine generators,
                    \* each with its expr's cached constancy
    left,           \* the with-block left by the last step, if any
    problem,        \* the Problem handed to ConeMatrixStuffing.apply
    stuffed,        \* apply's outputs: ParamConeProg, InverseData, expr_list
    solution,       \* the solver's Solution handed to invert
    result,         \* what invert returned or raised
    prog,           \* a ParamConeProg
    call            \* the last ParamConeProg method call: inputs and outputs

vars == <<is_constant, scopes, left, problem, stuffed,
          solution, result, prog, call>>

scopeVars == <<is_constant, scopes, left>>
stuffVars == <<problem, stuffed, solution, result>>
progVars  == <<prog, call>>

(***************************************************************************)
(* Bounds of the model.                                                    *)
(***************************************************************************)
NumParams == 2      \* parameters of the scope machine
MaxDepth  == 2      \* nested treat_params_as_affine scopes

None == <<>>
Some(v) == <<v>>

Range(s) == {s[i] : i \in DOMAIN s}

RECURSIVE SumSeq(_)
SumSeq(s) == IF s = <<>> THEN 0 ELSE s[1] + SumSeq(Tail(s))

RECURSIVE ProdSeq(_)
ProdSeq(s) == IF s = <<>> THEN 1 ELSE s[1] * ProdSeq(Tail(s))

RECURSIVE Concat(_)
Concat(ss) == IF ss = <<>> THEN <<>> ELSE ss[1] \o Concat(Tail(ss))

(***************************************************************************)
(* numpy: sizes, slices, column-major reshape and flatten.                 *)
(***************************************************************************)
\* np.prod(shape, dtype=int); also Leaf.size
SizeOf(shape) == ProdSeq(shape)

\* a[lo:hi] of a one-dimensional array (0-based, clipped to the array)
Slice(a, lo, hi) ==
    LET h == IF hi < Len(a) THEN hi ELSE Len(a)
    IN  IF lo >= h THEN <<>> ELSE [k \in 1..(h - lo) |-> a[lo + k]]

\* the position in column-major (Fortran) order of the entry that sits at
\* position k (0-based) of the C-order data of an array of this shape
FortranIndexWrong(shape, k) == k

FortranIndex(shape, k) ==
    IF Len(shape) < 2 THEN k
    ELSE (k \div shape[2]) + (k % shape[2]) * shape[1]

\* np.reshape(flat, shape, order='F'); raises ValueError on a size mismatch
ReshapeF(flat, shape) ==
    IF Len(flat) # SizeOf(shape)
    THEN [shape |-> <<>>, data |-> <<>>, error |-> "ValueError"]
    ELSE [shape |-> shape,
          data  |-> [k \in 1..Len(flat) |-> flat[FortranIndex(shape, k - 1) + 1]],
          error |-> ""]

\* the C-order position (0-based) of the entry at Fortran position f
CIndexWrong(shape, f) == f

CIndex(shape, f) ==
    IF Len(shape) < 2 THEN f
    ELSE (f % shape[1]) * shape[2] + (f \div shape[1])

\* arr.flatten(order='F')
FlattenF(arr) ==
    [f \in 1..Len(arr.data) |-> arr.data[CIndex(arr.shape, f - 1) + 1]]

MkArray(shape, data) == [shape |-> shape, data |-> data, error |-> ""]

(***************************************************************************)
(* parameter.py: the scope that treats parameters as affine.               *)
(***************************************************************************)
Params == 1..NumParams

\* expr.parameters(): the parameters of an expression, each once
Exprs == {e \in UNION {[1..n -> Params] : n \in 0..NumParams} :
             \A i, j \in DOMAIN e : i # j => e[i] # e[j]}

\* expr._check_is_constant(recompute=True) of a parameter expression
CheckIsConstant(e, flags) == \A i \in DOMAIN e : flags[e[i]]

\* lines 33-36: save each flag, then clear it, one parameter after another
EnterLoop(e, flags) ==
    LET F[i \in 0..Len(e)] ==
            IF i = 0 THEN [old |-> <<>>, flags |-> flags]
            ELSE [old   |-> Append(F[i-1].old, F[i-1].flags[e[i]]),
                  flags |-> [F[i-1].flags EXCEPT ![e[i]] = FALSE]]
    IN  F[Len(e)]

\* lines 41-42: zip(expr.parameters(), old_constant_flags)
RestoreLoop(e, old, flags) ==
    LET n == IF Len(e) < Len(old) THEN Len(e) ELSE Len(old)
        F[i \in 0..n] ==
            IF i = 0 THEN flags ELSE [F[i-1] EXCEPT ![e[i]] = old[i]]
    IN  F[n]

\* p.is_constant() of a parameter: its _check_is_constant() (lines 84-85)
IsConstant(p, flags) == CheckIsConstant(<<p>>, flags)

\* the values param_affine_scope_active can return: a bool, or the empty
\* list expr.parameters() of an expression without parameters
PyBool(b) == [type |-> "bool", truthy |-> b]
PyEmptyList == [type |-> "list", truthy |-> FALSE]

\* param_affine_scope_active(expr) (lines 46-48):
\* expr.parameters() and not expr.parameters()[0].is_constant()
ParamAffineScopeActive(e, flags) ==
    IF e = <<>> THEN PyEmptyList ELSE PyBool(~IsConstant(e[1], flags))

NoExit == [valid |-> FALSE, expr |-> <<>>, old |-> <<>>, cached |-> TRUE, how |-> ""]

\* Parameter.__init__ (line 74): every parameter starts constant
InitScope ==
    /\ is_constant = [p \in Params |-> TRUE]
    /\ scopes = <<>>
    /\ left = NoExit

\* "with treat_params_as_affine(expr):" runs the generator up to its yield
EnterScope(e) ==
    /\ Len(scopes) < MaxDepth
    /\ LET r == EnterLoop(e, is_constant)
       IN  /\ is_constant' = r.flags
           /\ scopes' = Append(scopes, [expr |-> e, old_constant_flags |-> r.old,
                                        cached |-> CheckIsConstant(e, r.flags)])
    /\ left' = NoExit
    /\ UNCHANGED <<stuffVars, progVars>>

\* the body ends normally: the generator resumes after the yield
ExitScope ==
    /\ scopes # <<>>
    /\ LET top == scopes[Len(scopes)]
           flags == RestoreLoop(top.expr, top.old_constant_flags, is_constant)
       IN  /\ is_constant' = flags
           /\ left' = [valid |-> TRUE, expr |-> top.expr,
                       old |-> top.old_constant_flags,
                       cached |-> CheckIsConstant(top.expr, flags), how |-> "return"]
    /\ scopes' = SubSeq(scopes, 1, Len(scopes) - 1)
    /\ UNCHANGED <<stuffVars, progVars>>

\* the body raises: contextlib throws the exception into the generator at the
\* yield (line 39), which has no try/finally around it, so lines 41-43 are
\* skipped and the exception leaves the with-block
RaiseInScope ==
    /\ scopes # <<>>
    /\ LET top == scopes[Len(scopes)]
       IN  left' = [valid |-> TRUE, expr |-> top.expr,
                    old |-> top.old_constant_flags,
                    cached |-> top.cached, how |-> "raise"]
    /\ scopes' = SubSeq(scopes, 1, Len(scopes) - 1)
    /\ UNCHANGED <<is_constant, stuffVars, progVars>>

Idle == <<>>

Init ==
    /\ InitScope
    /\ problem = Idle /\ stuffed = Idle /\ solution = Idle /\ result = Idle
    /\ prog = Idle /\ call = Idle

Next ==
    \/ \E e \in Exprs : EnterScope(e)
    \/ ExitScope
    \/ RaiseInScope

Spec == Init /\ [][Next]_vars

(***************************************************************************)
(* Problems, constraints and the identities lu.get_id() hands out.         *)
(***************************************************************************)
MaxCons == 2        \* constraints of a problem

\* shapes of the variables of a problem, in declaration order
VarLayouts == { << <<>>, <<>> >>,
                << <<2, 2>> >>,
                << <<2>>, <<1, 2>> >>,
                << <<2, 3>>, <<>> >> }

\* constraint kinds with the shapes of their arguments:
\* Equality/Inequality (lhs, rhs), Zero/NonPos/PSD (expr), SOC (t, X),
\* ExpCone (x, y, z)
ConTemplates ==
    { [kind |-> "Equality",   axis |-> 0, args |-> << <<2>>, <<2>> >>],
      [kind |-> "Inequality", axis |-> 0, args |-> << <<>>, <<>> >>],
      [kind |-> "Zero",       axis |-> 0, args |-> << <<2>> >>],
      [kind |-> "NonPos",     axis |-> 0, args |-> << <<>> >>],
      [kind |-> "SOC",        axis |-> 0, args |-> << <<1>>, <<2, 1>> >>],
      [kind |-> "SOC",        axis |-> 1, args |-> << <<1>>, <<1, 2>> >>],
      [kind |-> "PSD",        axis |-> 0, args |-> << <<2, 2>> >>],
      [kind |-> "ExpCone",    axis |-> 0, args |-> << <<>>, <<>>, <<>> >>] }

ConLists == UNION {[1..n -> ConTemplates] : n \in 0..MaxCons}

\* Constraint.__init__: one fresh dual variable per argument, of its shape;
\* the dual variables take the identities after first_id
NewConstraint(kind, axis, args, constr_id, first_id) ==
    [constr_id |-> constr_id, kind |-> kind, axis |-> axis, args |-> args,
     dual_variables |-> [i \in 1..Len(args) |->
                            [id |-> first_id + i, shape |-> args[i]]]]

\* the identities a constraint uses up: its own and its dual variables'
IdsOf(t) == 1 + Len(t.args)

\* a problem over variables of the given shapes with the given constraints;
\* identities are handed out in creation order, variables first
MkProblem(objective, shapes, templates) ==
    LET nv == Len(shapes)
        firstId[k \in 1..(Len(templates) + 1)] ==
            IF k = 1 THEN nv + 1 ELSE firstId[k-1] + IdsOf(templates[k-1])
    IN  [objective   |-> objective,
         variables   |-> [i \in 1..nv |-> [id |-> i, shape |-> shapes[i]]],
         constraints |-> [k \in 1..Len(templates) |->
                             NewConstraint(templates[k].kind, templates[k].axis,
                                           templates[k].args, firstId[k], firstId[k])],
         last_id     |-> firstId[Len(templates) + 1] - 1]

Problems == {MkProblem(o, v, c) :
                o \in {"Minimize", "Maximize"}, v \in VarLayouts, c \in ConLists}

\* InverseData(problem): offsets of the variables in the stacked variable, in
\* declaration order, and their shapes
VarOffsets(variables) ==
    LET off[i \in 1..(Len(variables) + 1)] ==
            IF i = 1 THEN 0 ELSE off[i-1] + SizeOf(variables[i-1].shape)
    IN  [id \in {variables[i].id : i \in DOMAIN variables} |->
            off[CHOOSE i \in DOMAIN variables : variables[i].id = id]]

VarShapes(variables) ==
    [id \in {variables[i].id : i \in DOMAIN variables} |->
        variables[CHOOSE i \in DOMAIN variables : variables[i].id = id].shape]

XLength(variables) == SumSeq([i \in DOMAIN variables |-> SizeOf(variables[i].shape)])

(***************************************************************************)
(* cone_matrix_stuffing.py: ConeMatrixStuffing.apply.                      *)
(***************************************************************************)
\* X.T
Transpose(shape) == [i \in DOMAIN shape |-> shape[Len(shape) + 1 - i]]

\* lower_equality / lower_inequality: Zero / NonPos of lhs - rhs, keeping the
\* constraint's identity
LowerTo(kind, con, first_id) ==
    NewConstraint(kind, 0, <<con.args[1]>>, con.constr_id, first_id)

\* lines 185-191: the lowered form of one constraint; a lowered constraint
\* is a new object whose dual variables take fresh identities
LowerWrong(con, first_id) ==
    IF con.kind = "Equality" THEN LowerTo("NonPos", con, first_id)
    ELSE IF con.kind = "Inequality" THEN LowerTo("NonPos", con, first_id)
    ELSE con

Lower(con, first_id) ==
    IF con.kind = "Equality" THEN LowerTo("Zero", con, first_id)
    ELSE IF con.kind = "Inequality" THEN LowerTo("NonPos", con, first_id)
    ELSE IF con.kind = "SOC" /\ con.axis = 1
         THEN NewConstraint("SOC", 0, <<con.args[1], Transpose(con.args[2])>>,
                            con.constr_id, first_id)
    ELSE con

\* lines 182-195: lower every constraint in order and record, for each dual
\* variable of the lowered constraint, the original it stands for
LowerAll(p) ==
    LET n == Len(p.constraints)
        F[k \in 0..n] ==
            IF k = 0
            THEN [cons |-> <<>>, dv_id_map |-> <<>>, last_id |-> p.last_id]
            ELSE LET orig_con == p.constraints[k]
                     con == Lower(orig_con, F[k-1].last_id)
                     m == IF Len(orig_con.dual_variables) < Len(con.dual_variables)
                          THEN Len(orig_con.dual_variables)
                          ELSE Len(con.dual_variables)
                     new == [id \in {con.dual_variables[i].id : i \in 1..m} |->
                               orig_con.dual_variables[
                                   CHOOSE i \in 1..m : con.dual_variables[i].id = id]]
                 IN  [cons |-> Append(F[k-1].cons, con),
                      dv_id_map |-> new @@ F[k-1].dv_id_map,
                      last_id |-> IF con = orig_con THEN F[k-1].last_id
                                  ELSE F[k-1].last_id + Len(con.args)]
    IN  F[n]

\* group_constraints(cons)[kind]: the constraints of one kind, in order
RECURSIVE OfKind(_, _)
OfKind(cons, kind) ==
    IF cons = <<>> THEN <<>>
    ELSE (IF cons[1].kind = kind THEN <<cons[1]>> ELSE <<>>) \o OfKind(Tail(cons), kind)

\* lines 197-199
OrderedConsWrong(cons) ==
    OfKind(cons, "NonPos") \o OfKind(cons, "Zero") \o OfKind(cons, "SOC")
        \o OfKind(cons, "PSD") \o OfKind(cons, "ExpCone")

OrderedCons(cons) ==
    OfKind(cons, "Zero") \o OfKind(cons, "NonPos") \o OfKind(cons, "SOC")
        \o OfKind(cons, "PSD") \o OfKind(cons, "ExpCone")

\* line 203: [arg for c in ordered_cons for arg in c.args]
ExprList(cons) ==
    Concat([k \in DOMAIN cons |->
               [i \in DOMAIN cons[k].args |->
                   [constr_id |-> cons[k].constr_id, arg |-> i,
                    shape |-> cons[k].args[i]]]])

\* ParamConeProg.__init__ (lines 46-64); c and A are the extractor's and
\* are given by the caller
ParamConeProg(c, x_size, A, variables, var_id_to_col, constraints, parameters, param_id_to_col) ==
    [c |-> c, x_size |-> x_size, A |-> A, variables |-> variables,
     var_id_to_col |-> var_id_to_col, constraints |-> constraints,
     parameters |-> parameters, param_id_to_col |-> param_id_to_col]

\* ConeMatrixStuffing.apply (lines 176-216)
ConeApply(p) ==
    LET lowered == LowerAll(p)
        ordered_cons == OrderedCons(lowered.cons)
        inverse_data ==
            [var_offsets |-> VarOffsets(p.variables),
             var_shapes  |-> VarShapes(p.variables),
             dv_id_map   |-> lowered.dv_id_map,
             constraints |-> ordered_cons,
             minimize    |-> (p.objective = "Minimize")]
    IN  [new_prob |-> ParamConeProg(<<>>, XLength(p.variables), <<>>,
                                    p.variables, inverse_data.var_offsets,
                                    ordered_cons, <<>>, <<>>),
         inverse_data |-> inverse_data,
         expr_list |-> ExprList(ordered_cons)]

(***************************************************************************)
(* matrix_stuffing.py: MatrixStuffing.invert.                              *)
(***************************************************************************)
\* cvxpy.settings: the solver outcome codes
OPTIMAL == "optimal"
OPTIMAL_INACCURATE == "optimal_inaccurate"
INFEASIBLE == "infeasible"
UNBOUNDED_INACCURATE == "unbounded_inaccurate"
SOLVER_ERROR == "solver_error"
Statuses == {OPTIMAL, OPTIMAL_INACCURATE, INFEASIBLE, UNBOUNDED_INACCURATE,
             SOLVER_ERROR}
SOLUTION_PRESENT == {OPTIMAL, OPTIMAL_INACCURATE}
ERROR == {SOLVER_ERROR}

\* Solution(status, opt_val, primal_vars, dual_vars, attr)
Solution(status, opt_val, primal_vars, dual_vars, attr) ==
    [raised |-> "", status |-> status, opt_val |-> opt_val,
     primal_vars |-> primal_vars, dual_vars |-> dual_vars, attr |-> attr]

\* a call that raised instead of returning
Raised(exc) ==
    [raised |-> exc, status |-> "", opt_val |-> None,
     primal_vars |-> <<>>, dual_vars |-> <<>>, attr |-> ""]

\* lines 104-106; -None raises TypeError
OptValWrong(sol, inverse_data) ==
    IF ~inverse_data.minimize
    THEN (IF sol.opt_val = None THEN [raised |-> "TypeError", val |-> None]
          ELSE [raised |-> "", val |-> Some(0 - sol.opt_val[1])])
    ELSE [raised |-> "", val |-> sol.opt_val]

OptVal(sol, inverse_data) ==
    IF sol.status \notin ERROR /\ ~inverse_data.minimize
    THEN (IF sol.opt_val = None THEN [raised |-> "TypeError", val |-> None]
          ELSE [raised |-> "", val |-> Some(0 - sol.opt_val[1])])
    ELSE [raised |-> "", val |-> sol.opt_val]

\* lines 117-122: the value of each variable of var_offsets
PrimalVars(x_opt, inverse_data) ==
    [var_id \in DOMAIN inverse_data.var_offsets |->
        LET offset == inverse_data.var_offsets[var_id]
            shape == inverse_data.var_shapes[var_id]
            size == SizeOf(shape)
        IN  ReshapeF(Slice(x_opt, offset, offset + size), shape)]

\* the shape a dual slice is reshaped to (line 134): the shape of dv, the
\* dual variable of the lowered constraint
DualShape(dv, inverse_data) == dv.shape

\* lines 128-137: walk the constraints and their dual variables in order,
\* the offset advancing by each dual variable's size
DualVars(dual_var, inverse_data) ==
    LET dvs == Concat([k \in DOMAIN inverse_data.constraints |->
                          inverse_data.constraints[k].dual_variables])
        F[i \in 0..Len(dvs)] ==
            IF i = 0 THEN [offset |-> 0, dual_vars |-> <<>>]
            ELSE LET dv == dvs[i]
                     dv_old == inverse_data.dv_id_map[dv.id]
                     offset == F[i-1].offset
                     value == ReshapeF(Slice(dual_var, offset, offset + SizeOf(dv.shape)),
                                       DualShape(dv, inverse_data))
                 IN  [offset |-> offset + SizeOf(dv.shape),
                      dual_vars |-> (dv_old.id :> value) @@ F[i-1].dual_vars]
    IN  F[Len(dvs)].dual_vars

AnyError(d) == \E k \in DOMAIN d : d[k].error # ""

\* the statuses for which invert returns before touching the vectors
ShortCircuitsWrong(status) == status \in ERROR

ShortCircuits(status) == status \notin SOLUTION_PRESENT

\* MatrixStuffing.invert (lines 100-140).  primal_vars and dual_vars of the
\* solver's solution are [isNone, values]: None, or the dict's values in order
Invert(sol, inverse_data) ==
    LET opt_val == OptVal(sol, inverse_data)
    IN  IF opt_val.raised # "" THEN Raised(opt_val.raised)
        ELSE IF ShortCircuits(sol.status)
        THEN Solution(sol.status, opt_val.val, <<>>, <<>>, sol.attr)
        ELSE IF sol.primal_vars.isNone THEN Raised("AttributeError")
        ELSE IF sol.primal_vars.values = <<>> THEN Raised("IndexError")
        ELSE LET primal_vars == PrimalVars(sol.primal_vars.values[1], inverse_data)
             IN  IF AnyError(primal_vars) THEN Raised("ValueError")
                 ELSE IF sol.dual_vars.isNone
                 THEN Solution(sol.status, opt_val.val, primal_vars, <<>>, sol.attr)
                 ELSE IF sol.dual_vars.values = <<>> THEN Raised("IndexError")
                 ELSE LET dual_vars == DualVars(sol.dual_vars.values[1], inverse_data)
                      IN  IF AnyError(dual_vars) THEN Raised("ValueError")
                          ELSE Solution(sol.status, opt_val.val, primal_vars,
                                        dual_vars, sol.attr)

(***************************************************************************)
(* The solutions a solver hands to invert.                                 *)
(***************************************************************************)
OptVals == {5, -3}
Attrs == {"solve_time", "num_iters"}

\* a vector of n distinct entries
Ramp(n, first) == [k \in 1..n |-> first + k - 1]

PyNone == [isNone |-> TRUE, values |-> <<>>]
Dict(values) == [isNone |-> FALSE, values |-> values]

\* the length of the solver's flat dual vector
DualLength(inverse_data) ==
    SumSeq([k \in DOMAIN inverse_data.constraints |->
               SumSeq([i \in DOMAIN inverse_data.constraints[k].dual_variables |->
                          SizeOf(inverse_data.constraints[k].dual_variables[i].shape)])])

\* with a solution-present status the solver gives an optimal value, the
\* flat primal vector, and the flat dual vector or no duals at all
PresentSolutions(new_prob, inverse_data) ==
    {[status |-> st, opt_val |-> Some(v),
      primal_vars |-> Dict(<<Ramp(new_prob.x_size, 1)>>),
      dual_vars |-> dv, attr |-> a] :
        st \in SOLUTION_PRESENT, v \in OptVals, a \in Attrs,
        dv \in {PyNone, Dict(<<Ramp(DualLength(inverse_data), 11)>>)}}

\* without one, the optimal value may be None and the vectors anything
AbsentSolutions ==
    {[status |-> st, opt_val |-> v, primal_vars |-> pd[1], dual_vars |-> pd[2],
      attr |-> a] :
        st \in Statuses \ SOLUTION_PRESENT,
        v \in {None} \cup {Some(x) : x \in OptVals}, a \in Attrs,
        pd \in {<<PyNone, PyNone>>, <<Dict(<<>>), Dict(<<>>)>>,
                <<Dict(<<Ramp(1, 1)>>), Dict(<<Ramp(1, 11)>>)>>}}

InitStuff ==
    /\ problem \in Problems
    /\ stuffed = Idle /\ solution = Idle /\ result = Idle
    /\ is_constant = Idle /\ scopes = Idle /\ left = Idle
    /\ prog = Idle /\ call = Idle

Apply ==
    /\ stuffed = Idle
    /\ stuffed' = ConeApply(problem)
    /\ UNCHANGED <<problem, solution, result, scopeVars, progVars>>

InvertSolution(sol) ==
    /\ stuffed # Idle /\ solution = Idle
    /\ solution' = sol
    /\ result' = Invert(sol, stuffed.inverse_data)
    /\ UNCHANGED <<problem, stuffed, scopeVars, progVars>>

NextStuff ==
    \/ Apply
    \/ /\ stuffed # Idle
       /\ \E sol \in PresentSolutions(stuffed.new_prob, stuffed.inverse_data)
                        \cup AbsentSolutions : InvertSolution(sol)

SpecStuff == InitStuff /\ [][NextStuff]_vars

(***************************************************************************)
(* cone_matrix_stuffing.py: ParamConeProg.                                 *)
(*   c is a matrix of x.size + 1 rows (the last row is the offset d) and   *)
(*   A one of rows * (x.size + 1) rows; both have a column per entry of    *)
(*   the flattened parameter vector and one for the constant term.         *)
(*   A parameter is [id, shape, value], value None or Some(array).         *)
(***************************************************************************)
MaxNnz == 1         \* nonzero coefficients of c and A together

\* lo.CONSTANT_ID
CONSTANT_ID == -1

Dot(u, v) == SumSeq([k \in DOMAIN u |-> u[k] * v[k]])

\* M @ v
MatVec(M, v) == [i \in DOMAIN M |-> Dot(M[i], v)]

\* u @ M  (u a row vector over the rows of M, M with ncols columns)
VecMat(u, M, ncols) ==
    [k \in 1..ncols |-> SumSeq([i \in DOMAIN M |-> u[i] * M[i][k]])]

\* p.size summed over the parameters (line 60)
TotalParamSize(parameters) ==
    SumSeq([i \in DOMAIN parameters |-> SizeOf(parameters[i].shape)])

\* self.id_to_param[idx] (line 59)
IdToParam(pr, idx) ==
    pr.parameters[CHOOSE i \in DOMAIN pr.parameters : pr.parameters[i].id = idx]

ParamIds(pr) == {pr.parameters[i].id : i \in DOMAIN pr.parameters}

\* InverseData.param_id_map: the column of each parameter in the flattened
\* parameter vector, in order, and after them the column of the constant
ParamIdMap(parameters) ==
    LET off[i \in 1..(Len(parameters) + 1)] ==
            IF i = 1 THEN 0 ELSE off[i-1] + SizeOf(parameters[i-1].shape)
    IN  [id \in {parameters[i].id : i \in DOMAIN parameters} \cup {CONSTANT_ID} |->
            IF id = CONSTANT_ID THEN off[Len(parameters) + 1]
            ELSE off[CHOOSE i \in DOMAIN parameters : parameters[i].id = id]]

\* param_value(idx) (lines 76-78): the stored value of every parameter when
\* no mapping is given, else the mapping's entry; np.array(None) cannot be
\* written into the float vector (TypeError), a missing key is a KeyError
ParamValueWrong(pr, id_to_param_value, idx) ==
    IF ~id_to_param_value.isNone /\ idx \in DOMAIN id_to_param_value.map
    THEN [raised |-> "", value |-> id_to_param_value.map[idx]]
    ELSE IF IdToParam(pr, idx).value = None
         THEN [raised |-> "TypeError", value |-> MkArray(<<>>, <<0>>)]
         ELSE [raised |-> "", value |-> IdToParam(pr, idx).value[1]]

ParamValue(pr, id_to_param_value, idx) ==
    IF id_to_param_value.isNone
    THEN (IF IdToParam(pr, idx).value = None
          THEN [raised |-> "TypeError", value |-> MkArray(<<>>, <<0>>)]
          ELSE [raised |-> "", value |-> IdToParam(pr, idx).value[1]])
    ELSE IF idx \in DOMAIN id_to_param_value.map
         THEN [raised |-> "", value |-> id_to_param_value.map[idx]]
         ELSE [raised |-> "KeyError", value |-> MkArray(<<>>, <<0>>)]

\* line 85: what the constant's column of param_vec gets
ConstantTermWrong(col) == 0

ConstantTerm(col) == 1

\* lines 81-89: the flattened parameter vector
ParamVec(pr, id_to_param_value) ==
    LET ids == DOMAIN pr.param_id_to_col \ {CONSTANT_ID}
        got == [idx \in ids |-> ParamValue(pr, id_to_param_value, idx)]
        bad == {idx \in ids : got[idx].raised # ""}
        n == TotalParamSize(pr.parameters) + 1
        entry(k) ==
            IF \E idx \in ids : /\ pr.param_id_to_col[idx] <= k - 1
                                /\ k - 1 < pr.param_id_to_col[idx] + SizeOf(IdToParam(pr, idx).shape)
            THEN LET idx == CHOOSE idx \in ids :
                                /\ pr.param_id_to_col[idx] <= k - 1
                                /\ k - 1 < pr.param_id_to_col[idx] + SizeOf(IdToParam(pr, idx).shape)
                 IN  FlattenF(got[idx].value)[k - pr.param_id_to_col[idx]]
            ELSE IF CONSTANT_ID \in DOMAIN pr.param_id_to_col
                    /\ pr.param_id_to_col[CONSTANT_ID] = k - 1
                 THEN ConstantTerm(k - 1)
            ELSE 0
    IN  IF bad # {}
        THEN [raised |-> got[CHOOSE idx \in bad : TRUE].raised, vec |-> <<>>]
        ELSE [raised |-> "", vec |-> [k \in 1..n |-> entry(k)]]

ApplyFailed(exc) ==
    [raised |-> exc, param_vec |-> <<>>, c |-> <<>>, A |-> MkArray(<<0, 0>>, <<>>)]

\* apply_parameters (lines 70-98)
ApplyParameters(pr, id_to_param_value) ==
    LET pv == ParamVec(pr, id_to_param_value)
        var_size == pr.x_size + 1
    IN  IF pv.raised # "" THEN ApplyFailed(pv.raised)
        ELSE [raised |-> "", param_vec |-> pv.vec,
              c |-> MatVec(pr.c, pv.vec),
              A |-> ReshapeF(MatVec(pr.A, pv.vec),
                             <<Len(pr.A) \div var_size, var_size>>)]

\* line 110: sp.vstack([flatdelA, delb])
DelAbWrong(delA, delb) == delb \o FlattenF(delA)

DelAb(delA, delb) == FlattenF(delA) \o delb

\* apply_param_jac (lines 100-122); active_params is [isNone, set]
ApplyParamJac(pr, delc, delA, delb, active_params) ==
    LET active == IF active_params.isNone THEN ParamIds(pr) ELSE active_params.set
        ncols == TotalParamSize(pr.parameters) + 1
        fromc == VecMat(delc, SubSeq(pr.c, 1, Len(pr.c) - 1), ncols)
        fromA == VecMat(DelAb(delA, delb), pr.A, ncols)
        del_param_vec == [k \in 1..ncols |-> fromc[k] + fromA[k]]
    IN  [param_id \in DOMAIN pr.param_id_to_col \cap active |->
            LET param == IdToParam(pr, param_id)
                col == pr.param_id_to_col[param_id]
            IN  ReshapeF(Slice(del_param_vec, col, SizeOf(param.shape) + col),
                         param.shape)]

\* split_solution (lines 124-138); active_vars is [isNone, set]
IdToVar(pr, idx) ==
    pr.variables[CHOOSE i \in DOMAIN pr.variables : pr.variables[i].id = idx]

SplitSolution(pr, sltn, active_vars) ==
    LET active == IF active_vars.isNone
                  THEN {pr.variables[i].id : i \in DOMAIN pr.variables}
                  ELSE active_vars.set
    IN  [var_id \in DOMAIN pr.var_id_to_col \cap active |->
            LET var == IdToVar(pr, var_id)
                col == pr.var_id_to_col[var_id]
            IN  ReshapeF(Slice(sltn, col, SizeOf(var.shape) + col), var.shape)]

\* split_adjoint (lines 140-149)
SplitAdjoint(pr, del_vars) ==
    [k \in 1..pr.x_size |->
        IF \E var_id \in DOMAIN del_vars :
               /\ pr.var_id_to_col[var_id] <= k - 1
               /\ k - 1 < pr.var_id_to_col[var_id] + SizeOf(IdToVar(pr, var_id).shape)
        THEN LET var_id == CHOOSE var_id \in DOMAIN del_vars :
               /\ pr.var_id_to_col[var_id] <= k - 1
               /\ k - 1 < pr.var_id_to_col[var_id] + SizeOf(IdToVar(pr, var_id).shape)
             IN  FlattenF(del_vars[var_id])[k - pr.var_id_to_col[var_id]]
        ELSE 0]

(***************************************************************************)
(* The parameterized programs the ParamConeProg methods are run on: one    *)
(* scalar variable, one Zero constraint of two rows, the parameters of a   *)
(* layout, and coefficient matrices with few nonzero entries.              *)
(***************************************************************************)
ParamLayouts ==
    { << [id |-> 4, shape |-> <<2, 2>>] >>,
      << [id |-> 3, shape |-> <<>>], [id |-> 5, shape |-> <<2>>] >> }

ProgVariables == << [id |-> 1, shape |-> <<>>] >>
ProgConstraints == << NewConstraint("Zero", 0, << <<2>> >>, 2, 2) >>

\* self.constr_size (line 56)
ConstrSize(constraints) ==
    SumSeq([k \in DOMAIN constraints |->
               SumSeq([i \in DOMAIN constraints[k].args |->
                          SizeOf(constraints[k].args[i])])])

RECURSIVE SubsetsUpTo(_, _)
SubsetsUpTo(S, k) ==
    IF k = 0 THEN {{}}
    ELSE LET prev == SubsetsUpTo(S, k - 1)
         IN  prev \cup {Z \cup {x} : Z \in prev, x \in S}

\* the matrix of the given rows and columns whose nonzero entries, all 1,
\* are the positions of Z below row `above`
Coef(Z, above, rows, cols) ==
    [i \in 1..rows |-> [k \in 1..cols |-> IF <<above + i, k>> \in Z THEN 1 ELSE 0]]

\* the value a parameter holds once set, and a value overriding it
StoredValue(param) == MkArray(param.shape, Ramp(SizeOf(param.shape), param.id))
Override(param) == MkArray(param.shape, Ramp(SizeOf(param.shape), 10 + param.id))

\* Parameter(shape, id=id): no value yet (line 72); set: value given
Parameter(layout, set) ==
    [i \in DOMAIN layout |->
        [id |-> layout[i].id, shape |-> layout[i].shape,
         value |-> IF layout[i].id \in set THEN Some(StoredValue(layout[i])) ELSE None]]

MkProg(layout, set, Z) ==
    LET x_size == XLength(ProgVariables)
        crows == x_size + 1
        arows == ConstrSize(ProgConstraints) * (x_size + 1)
        cols == TotalParamSize(layout) + 1
    IN  ParamConeProg(Coef(Z, 0, crows, cols), x_size, Coef(Z, crows, arows, cols),
                      ProgVariables, VarOffsets(ProgVariables), ProgConstraints,
                      Parameter(layout, set), ParamIdMap(layout))

CoefPositions(layout) ==
    LET x_size == XLength(ProgVariables)
    IN  (1..((x_size + 1) * (1 + ConstrSize(ProgConstraints))))
            \X (1..(TotalParamSize(layout) + 1))

\* the programs over a layout whose parameters of `set` hold a value
ProgsOf(layout, set) ==
    {MkProg(layout, set, Z) : Z \in SubsetsUpTo(CoefPositions(layout), MaxNnz)}

LayoutIds(layout) == {layout[i].id : i \in DOMAIN layout}

NoMapping == [isNone |-> TRUE, map |-> <<>>]
Given(m) == [isNone |-> FALSE, map |-> m]
NoActive == [isNone |-> TRUE, set |-> {}]
Active(S) == [isNone |-> FALSE, set |-> S]

\* ---- apply_parameters with and without a mapping ----
InitParam ==
    /\ prog \in UNION {ProgsOf(layout, {}) : layout \in ParamLayouts}
    /\ call = Idle
    /\ is_constant = Idle /\ scopes = Idle /\ left = Idle
    /\ problem = Idle /\ stuffed = Idle /\ solution = Idle /\ result = Idle

\* the value setter (parameter.py lines 94-96)
SetValue(i) ==
    /\ prog.parameters[i].value = None
    /\ prog' = [prog EXCEPT !.parameters[i].value = Some(StoredValue(prog.parameters[i]))]
    /\ call' = Idle
    /\ UNCHANGED <<scopeVars, stuffVars>>

CallApplyParameters(m) ==
    /\ call = Idle
    /\ call' = [op |-> "apply_parameters", id_to_param_value |-> m,
                out |-> ApplyParameters(prog, m)]
    /\ UNCHANGED <<prog, scopeVars, stuffVars>>

Mappings(pr) ==
    {NoMapping} \cup
    {Given([id \in S |-> Override(IdToParam(pr, id))]) : S \in SUBSET ParamIds(pr)}

NextParam ==
    \/ \E i \in DOMAIN prog.parameters : SetValue(i)
    \/ \E m \in Mappings(prog) : CallApplyParameters(m)

SpecParam == InitParam /\ [][NextParam]_vars

\* ---- linearity and adjointness ----
Scalars == {-1, 2}

\* the vectors of length n with entries 0 and 1 and at most one 1
UnitVectors(n) == {[k \in 1..n |-> IF k = j THEN 1 ELSE 0] : j \in 0..n}

Ones(n) == [k \in 1..n |-> 1]

\* one array per parameter, cut from a flat vector
Assignment(pr, flat) ==
    [id \in ParamIds(pr) |->
        MkArray(IdToParam(pr, id).shape,
                Slice(flat, pr.param_id_to_col[id],
                      pr.param_id_to_col[id] + SizeOf(IdToParam(pr, id).shape)))]

Assignments(pr) ==
    {Assignment(pr, f) : f \in UnitVectors(TotalParamSize(pr.parameters))}

\* a*p + b*q, entry by entry
Combine(a, p, b, q) ==
    [id \in DOMAIN p |->
        MkArray(p[id].shape,
                [k \in DOMAIN p[id].data |-> a * p[id].data[k] + b * q[id].data[k]])]

\* the stored values, those of `set` moved by dp
Moved(pr, dp, set) ==
    [id \in ParamIds(pr) |->
        IF id \in set THEN Combine(1, [x \in {id} |-> IdToParam(pr, id).value[1]],
                                   1, [x \in {id} |-> dp[id]])[id]
        ELSE IdToParam(pr, id).value[1]]

InitLinear ==
    /\ prog \in UNION {ProgsOf(layout, LayoutIds(layout)) : layout \in ParamLayouts}
    /\ call = Idle
    /\ is_constant = Idle /\ scopes = Idle /\ left = Idle
    /\ problem = Idle /\ stuffed = Idle /\ solution = Idle /\ result = Idle

\* apply_parameters at p1, at p2 and at a*p1 + b*p2
CheckLinearity(a, b, p1, p2) ==
    /\ call = Idle
    /\ call' = [op |-> "linearity", a |-> a, b |-> b, p1 |-> p1, p2 |-> p2,
                r1 |-> ApplyParameters(prog, Given(p1)),
                r2 |-> ApplyParameters(prog, Given(p2)),
                r12 |-> ApplyParameters(prog, Given(Combine(a, p1, b, p2)))]
    /\ UNCHANGED <<prog, scopeVars, stuffVars>>

\* apply_param_jac at (delc, delA, delb), and apply_parameters at the stored
\* values and at the stored values with the active parameters moved by dp
CheckAdjoint(del, dp, active_params) ==
    /\ call = Idle
    /\ LET n == prog.x_size
           m == ConstrSize(prog.constraints)
           delc == SubSeq(del, 1, n)
           delA == MkArray(<<m, n>>, SubSeq(del, n + 1, n + m * n))
           delb == SubSeq(del, n + m * n + 1, n + m * n + m)
           set == IF active_params.isNone THEN ParamIds(prog) ELSE active_params.set
       IN  call' = [op |-> "adjoint", delc |-> delc, delA |-> delA, delb |-> delb,
                    dp |-> dp, active_params |-> active_params,
                    jac |-> ApplyParamJac(prog, delc, delA, delb, active_params),
                    base |-> ApplyParameters(prog, NoMapping),
                    moved |-> ApplyParameters(prog, Given(Moved(prog, dp, set)))]
    /\ UNCHANGED <<prog, scopeVars, stuffVars>>

Perturbations(pr) ==
    LET n == pr.x_size + ConstrSize(pr.constraints) * (pr.x_size + 1)
    IN  UnitVectors(n) \cup {Ones(n)}

NextLinear ==
    \/ \E a, b \in Scalars : \E p1, p2 \in Assignments(prog) : CheckLinearity(a, b, p1, p2)
    \/ \E del \in Perturbations(prog) : \E dp \in Assignments(prog) :
          \E act \in {NoActive} \cup {Active(S) : S \in SUBSET ParamIds(prog)} :
              CheckAdjoint(del, dp, act)

SpecLinear == InitLinear /\ [][NextLinear]_vars

\* ---- split_solution and split_adjoint ----
SplitVals == {0, 1}

InitSplit ==
    /\ prog \in {ConeApply(MkProblem("Minimize", layout, <<>>)).new_prob :
                    layout \in VarLayouts}
    /\ call = Idle
    /\ is_constant = Idle /\ scopes = Idle /\ left = Idle
    /\ problem = Idle /\ stuffed = Idle /\ solution = Idle /\ result = Idle

VarIds(pr) == {pr.variables[i].id : i \in DOMAIN pr.variables}

\* one array per variable, cut from a flat vector
VarArrays(pr, flat) ==
    [id \in VarIds(pr) |->
        MkArray(IdToVar(pr, id).shape,
                Slice(flat, pr.var_id_to_col[id],
                      pr.var_id_to_col[id] + SizeOf(IdToVar(pr, id).shape)))]

CallSplitSolution(sltn, active_vars) ==
    /\ call = Idle
    /\ call' = [op |-> "split_solution", sltn |-> sltn, active_vars |-> active_vars,
                out |-> SplitSolution(prog, sltn, active_vars)]
    /\ UNCHANGED <<prog, scopeVars, stuffVars>>

CallSplitAdjoint(del_vars) ==
    /\ call = Idle
    /\ call' = [op |-> "split_adjoint", del_vars |-> del_vars,
                out |-> SplitAdjoint(prog, del_vars)]
    /\ UNCHANGED <<prog, scopeVars, stuffVars>>

\* split_adjoint of what split_solution just returned
AdjointOfSplit ==
    /\ call # Idle /\ call.op = "split_solution"
    /\ call' = [op |-> "adjoint_of_split", sltn |-> call.sltn,
                active_vars |-> call.active_vars, del_vars |-> call.out,
                out |-> SplitAdjoint(prog, call.out)]
    /\ UNCHANGED <<prog, scopeVars, stuffVars>>

\* split_solution of what split_adjoint just returned
SplitOfAdjoint ==
    /\ call # Idle /\ call.op = "split_adjoint"
    /\ call' = [op |-> "split_of_adjoint", del_vars |-> call.del_vars,
                var_vec |-> call.out,
                out |-> SplitSolution(prog, call.out, NoActive)]
    /\ UNCHANGED <<prog, scopeVars, stuffVars>>

NextSplit ==
    \/ \E sltn \in [1..prog.x_size -> SplitVals] :
          \E act \in {NoActive} \cup {Active(S) : S \in SUBSET VarIds(prog)} :
              CallSplitSolution(sltn, act)
    \/ \E flat \in [1..prog.x_size -> SplitVals] : CallSplitAdjoint(VarArrays(prog, flat))
    \/ AdjointOfSplit
    \/ SplitOfAdjoint

SpecSplit == InitSplit /\ [][NextSplit]_vars

\* C1: once a with-block over expr is left, by return or by exception, every
\* parameter of expr has the _is_constant flag it had when the block was
\* entered, and the expression's cached constancy agrees with the flags.
C1_RestoredOnEveryExit ==
    left.valid =>
        /\ \A i \in DOMAIN left.expr : is_constant[left.expr[i]] = left.old[i]
        /\ left.cached = CheckIsConstant(left.expr, is_constant)

(***************************************************************************)
(* Reading arrays entry by entry, for the statements below.                *)
(***************************************************************************)
\* the multi-indices (0-based) of an array of this shape
Indices(shape) ==
    IF Len(shape) = 0 THEN {<<>>}
    ELSE IF Len(shape) = 1 THEN {<<i>> : i \in 0..(shape[1] - 1)}
    ELSE {<<i, j>> : i \in 0..(shape[1] - 1), j \in 0..(shape[2] - 1)}

\* arr[idx]
At(arr, idx) ==
    IF Len(idx) = 0 THEN arr.data[1]
    ELSE IF Len(idx) = 1 THEN arr.data[idx[1] + 1]
    ELSE arr.data[idx[1] * arr.shape[2] + idx[2] + 1]

\* the place of entry idx when the array is stacked column by column
ColumnMajor(shape, idx) ==
    IF Len(idx) = 0 THEN 0
    ELSE IF Len(idx) = 1 THEN idx[1]
    ELSE idx[1] + idx[2] * shape[1]

\* arr has this shape and its entry idx is flat[offset + column-major place]
IsColumnMajorSlice(arr, shape, flat, offset) ==
    /\ arr.error = ""
    /\ arr.shape = shape
    /\ Len(arr.data) = SizeOf(shape)
    /\ \A idx \in Indices(shape) :
           At(arr, idx) = flat[offset + ColumnMajor(shape, idx) + 1]

Inverted == solution # Idle
Minimize == stuffed.inverse_data.minimize
Present == Inverted /\ solution.status \in SOLUTION_PRESENT

\* C2: with a status outside SOLUTION_PRESENT, invert returns (it does not
\* raise) a Solution carrying the status and attr, with empty primal_vars and
\* empty dual_vars, whatever vectors the input holds.
C2_ShortCircuitReturnsEmpty ==
    (Inverted /\ solution.status \notin SOLUTION_PRESENT) =>
        /\ result.raised = ""
        /\ result.status = solution.status
        /\ result.attr = solution.attr
        /\ result.primal_vars = <<>>
        /\ result.dual_vars = <<>>

\* C3: for a maximize (minimize false), a status outside ERROR and a solver
\* optimal value v, invert reports -v; with a status in ERROR, or for a
\* minimize, the optimal value passes through unchanged, None included.
C3_OptValSign ==
    Inverted =>
        /\ (~Minimize /\ solution.status \notin ERROR /\ solution.opt_val # None) =>
               /\ result.raised = ""
               /\ result.opt_val = Some(0 - solution.opt_val[1])
        /\ (Minimize \/ solution.status \in ERROR) =>
               /\ result.raised = ""
               /\ result.opt_val = solution.opt_val

\* a maximize whose stuffed optimal value 5 is reported as -5, on the
\* solution-present path
C3_Witness ==
    /\ Present /\ ~Minimize
    /\ solution.opt_val = Some(5)
    /\ result.raised = "" /\ result.opt_val = Some(-5)
    /\ DOMAIN result.primal_vars # {}

\* C4: with a solution-present status, primal_vars has exactly one entry per
\* variable id of var_offsets; the entry has the variable's shape and is the
\* slice [offset, offset+size) of the flat primal vector laid out column by
\* column, so stacking the returned values again gives back the flat vector.
C4_PrimalSplit ==
    Present =>
        LET x_opt == solution.primal_vars.values[1]
            inv == stuffed.inverse_data
        IN  /\ result.raised = ""
            /\ DOMAIN result.primal_vars = DOMAIN inv.var_offsets
            /\ \A id \in DOMAIN inv.var_offsets :
                   /\ IsColumnMajorSlice(result.primal_vars[id], inv.var_shapes[id],
                                         x_opt, inv.var_offsets[id])
                   /\ FlattenF(result.primal_vars[id])
                        = Slice(x_opt, inv.var_offsets[id],
                                inv.var_offsets[id] + SizeOf(inv.var_shapes[id]))

\* a 2x3 variable and a scalar recovered from the stacked vector 1..7
C4_Witness ==
    /\ Present /\ result.raised = ""
    /\ DOMAIN result.primal_vars = {1, 2}
    /\ result.primal_vars[1] = MkArray(<<2, 3>>, <<1, 3, 5, 2, 4, 6>>)
    /\ result.primal_vars[2] = MkArray(<<>>, <<7>>)

\* the dual variables of a problem's own constraints
OriginalDuals ==
    Concat([k \in DOMAIN problem.constraints |-> problem.constraints[k].dual_variables])

\* C5: when dual values are present, the flat dual vector is cut into
\* consecutive slices, one per dual variable of inverse_data.constraints in
\* stored order; each slice is stored under the original dual variable that
\* dv_id_map gives and has the ORIGINAL dual variable's shape, also for a
\* SOC constraint with axis 1 lowered to axis 0.
C5_DualsInOriginalShape ==
    (Present /\ ~solution.dual_vars.isNone) =>
        LET inv == stuffed.inverse_data
            dual_var == solution.dual_vars.values[1]
            dvs == Concat([k \in DOMAIN inv.constraints |->
                              inv.constraints[k].dual_variables])
            offset(i) == SumSeq([j \in 1..(i - 1) |-> SizeOf(dvs[j].shape)])
        IN  /\ result.raised = ""
            /\ DOMAIN result.dual_vars = {inv.dv_id_map[dvs[i].id].id : i \in DOMAIN dvs}
            /\ \A i \in DOMAIN dvs :
                   LET dv_old == inv.dv_id_map[dvs[i].id]
                   IN  /\ \E j \in DOMAIN OriginalDuals : OriginalDuals[j] = dv_old
                       /\ IsColumnMajorSlice(result.dual_vars[dv_old.id], dv_old.shape,
                                             dual_var, offset(i))

\* the final kind of a constraint kind, and the place of its bucket
LoweredKind(kind) ==
    IF kind = "Equality" THEN "Zero"
    ELSE IF kind = "Inequality" THEN "NonPos" ELSE kind

Bucket(kind) ==
    IF kind = "Zero" THEN 1 ELSE IF kind = "NonPos" THEN 2
    ELSE IF kind = "SOC" THEN 3 ELSE IF kind = "PSD" THEN 4
    ELSE IF kind = "ExpCone" THEN 5 ELSE 0

\* the arguments a constraint has once lowered
LoweredArgs(con) ==
    IF con.kind \in {"Equality", "Inequality"} THEN <<con.args[1]>>
    ELSE IF con.kind = "SOC" /\ con.axis = 1
         THEN <<con.args[1], Transpose(con.args[2])>>
    ELSE con.args

\* C9: after apply, inverse_data.constraints and the ParamConeProg's
\* constraints are one list; each constraint of the problem is in it exactly
\* once, lowered (Equality as Zero, Inequality as NonPos, SOC axis 1 as SOC
\* axis 0, others unchanged); Zero come first, then NonPos, SOC, PSD,
\* ExpCone; and the expressions handed to coefficient extraction are the
\* constraints' args in that order, so that the rows of a constraint start at
\* the sum of the arg sizes of the constraints before it.
C9_OrderedConstraints ==
    stuffed # Idle =>
        LET cons == stuffed.inverse_data.constraints
            exprs == stuffed.expr_list
            nargs(k) == SumSeq([j \in 1..(k - 1) |-> Len(cons[j].args)])
            rows(k) == SumSeq([j \in 1..(k - 1) |->
                                  SumSeq([i \in DOMAIN cons[j].args |->
                                             SizeOf(cons[j].args[i])])])
            rowOfExpr(n) == SumSeq([j \in 1..(n - 1) |-> SizeOf(exprs[j].shape)])
        IN  /\ stuffed.new_prob.constraints = cons
            /\ Len(cons) = Len(problem.constraints)
            /\ \A k \in DOMAIN problem.constraints :
                   LET orig == problem.constraints[k]
                       at == {j \in DOMAIN cons : cons[j].constr_id = orig.constr_id}
                   IN  /\ Cardinality(at) = 1
                       /\ \A j \in at :
                              /\ cons[j].kind = LoweredKind(orig.kind)
                              /\ cons[j].args = LoweredArgs(orig)
                              /\ cons[j].kind = "SOC" => cons[j].axis = 0
            /\ \A j \in DOMAIN cons : Bucket(cons[j].kind) > 0
            /\ \A i, j \in DOMAIN cons :
                   i < j => Bucket(cons[i].kind) <= Bucket(cons[j].kind)
            /\ Len(exprs) = nargs(Len(cons) + 1)
            /\ \A k \in DOMAIN cons : \A i \in DOMAIN cons[k].args :
                   /\ exprs[nargs(k) + i] = [constr_id |-> cons[k].constr_id, arg |-> i,
                                             shape |-> cons[k].args[i]]
                   /\ rowOfExpr(nargs(k) + 1) = rows(k)

\* an inequality followed by an equality: the two change places
C9_Witness ==
    /\ stuffed # Idle
    /\ Len(problem.constraints) = 2
    /\ problem.constraints[1].kind = "Inequality"
    /\ problem.constraints[2].kind = "Equality"
    /\ stuffed.new_prob.constraints[1].kind = "Zero"
    /\ stuffed.new_prob.constraints[1].constr_id = problem.constraints[2].constr_id
    /\ stuffed.new_prob.constraints[2].kind = "NonPos"

(***************************************************************************)
(* ParamConeProg: statements about the method calls.                       *)
(***************************************************************************)
Called(op) == call # Idle /\ call.op = op

\* the entries of param_vec that belong to parameter id are those of value,
\* column by column
HoldsValue(param_vec, pr, id, value) ==
    \A idx \in Indices(IdToParam(pr, id).shape) :
        param_vec[pr.param_id_to_col[id] + ColumnMajor(IdToParam(pr, id).shape, idx) + 1]
            = At(value, idx)

ConstantSlotIsOne(param_vec, pr) == param_vec[pr.param_id_to_col[CONSTANT_ID] + 1] = 1

\* C6: the mapping is a set of per-parameter overrides: a parameter in the
\* mapping uses the mapped value, one absent from it uses its stored value,
\* and the call fails exactly when some parameter has neither; the constant
\* slot always gets 1.
C6_PerParameterOverride ==
    Called("apply_parameters") =>
        LET m == call.id_to_param_value
            over == IF m.isNone THEN {} ELSE DOMAIN m.map
            valueOf(id) == IF id \in over THEN Some(m.map[id])
                           ELSE IdToParam(prog, id).value
            missing == \E id \in ParamIds(prog) : valueOf(id) = None
        IN  /\ (call.out.raised # "") <=> missing
            /\ ~missing =>
                   /\ \A id \in ParamIds(prog) :
                          HoldsValue(call.out.param_vec, prog, id, valueOf(id)[1])
                   /\ ConstantSlotIsOne(call.out.param_vec, prog)

\* C6, amended: a mapping, when given, stands for all stored values: every
\* parameter takes the mapped value and the call fails exactly when some
\* parameter is absent from the mapping; with no mapping every parameter
\* takes its stored value and the call fails exactly when some parameter has
\* none; on success the constant slot is 1.
C6_MappingReplacesStored ==
    Called("apply_parameters") =>
        LET m == call.id_to_param_value
            out == call.out
        IN  IF m.isNone
            THEN /\ (out.raised # "") <=>
                        \E id \in ParamIds(prog) : IdToParam(prog, id).value = None
                 /\ out.raised = "" =>
                        /\ \A id \in ParamIds(prog) :
                               HoldsValue(out.param_vec, prog, id, IdToParam(prog, id).value[1])
                        /\ ConstantSlotIsOne(out.param_vec, prog)
            ELSE /\ (out.raised # "") <=>
                        \E id \in ParamIds(prog) : id \notin DOMAIN m.map
                 /\ out.raised = "" =>
                        /\ \A id \in ParamIds(prog) :
                               HoldsValue(out.param_vec, prog, id, m.map[id])
                        /\ ConstantSlotIsOne(out.param_vec, prog)

\* a mapping that leaves out a parameter holding a stored value: KeyError
C6_Witness ==
    /\ Called("apply_parameters")
    /\ ~call.id_to_param_value.isNone
    /\ DOMAIN call.id_to_param_value.map # {}
    /\ \A id \in ParamIds(prog) : IdToParam(prog, id).value # None
    /\ \E id \in ParamIds(prog) : id \notin DOMAIN call.id_to_param_value.map
    /\ call.out.raised = "KeyError"

\* C7: apply_parameters(a*p1 + b*p2) = a*apply_parameters(p1)
\* + b*apply_parameters(p2), entry by entry, for c and for A.
C7_Linear ==
    Called("linearity") =>
        /\ call.r12.raised = "" /\ call.r1.raised = "" /\ call.r2.raised = ""
        /\ \A i \in DOMAIN call.r12.c :
               call.r12.c[i] = call.a * call.r1.c[i] + call.b * call.r2.c[i]
        /\ call.r12.A.shape = call.r1.A.shape
        /\ \A idx \in Indices(call.r12.A.shape) :
               At(call.r12.A, idx) = call.a * At(call.r1.A, idx) + call.b * At(call.r2.A, idx)

\* the constant-term column of the stored c and A
ConstantColumn(M, pr) == [i \in DOMAIN M |-> M[i][pr.param_id_to_col[CONSTANT_ID] + 1]]

\* C7, amended: apply_parameters is affine in the parameter values:
\* apply_parameters(a*p1 + b*p2) = a*apply_parameters(p1)
\* + b*apply_parameters(p2) + (1 - a - b)*k, entry by entry, where k is the
\* constant-term column of the stored c, and of the stored A laid out like A.
C7_Affine ==
    Called("linearity") =>
        LET kc == ConstantColumn(prog.c, prog)
            kA == ConstantColumn(prog.A, prog)
            rest == 1 - call.a - call.b
        IN  /\ call.r12.raised = "" /\ call.r1.raised = "" /\ call.r2.raised = ""
            /\ Len(call.r12.c) = prog.x_size + 1
            /\ \A i \in DOMAIN call.r12.c :
                   call.r12.c[i] = call.a * call.r1.c[i] + call.b * call.r2.c[i]
                                   + rest * kc[i]
            /\ call.r12.A.shape = <<ConstrSize(prog.constraints), prog.x_size + 1>>
            /\ call.r1.A.shape = call.r12.A.shape
            /\ call.r2.A.shape = call.r12.A.shape
            /\ \A idx \in Indices(call.r12.A.shape) :
                   At(call.r12.A, idx)
                     = call.a * At(call.r1.A, idx) + call.b * At(call.r2.A, idx)
                       + rest * kA[ColumnMajor(call.r12.A.shape, idx) + 1]

\* a combination with a + b # 1 of two different assignments, on a program
\* whose A has a constant term
C7_Witness ==
    /\ Called("linearity")
    /\ call.a = 2 /\ call.b = 2
    /\ call.p1 # call.p2
    /\ \E i \in DOMAIN prog.A : ConstantColumn(prog.A, prog)[i] # 0
    /\ \E idx \in Indices(call.r12.A.shape) :
           At(call.r12.A, idx) # call.a * At(call.r1.A, idx) + call.b * At(call.r2.A, idx)

\* C8: when active_vars covers all variables, split_adjoint undoes
\* split_solution on every flat vector, and split_solution undoes
\* split_adjoint on every map of correctly shaped arrays, given that the
\* column ranges of var_id_to_col are disjoint and cover [0, x.size).
ColumnsPartition(pr) ==
    \A k \in 0..(pr.x_size - 1) :
        Cardinality({id \in DOMAIN pr.var_id_to_col :
                        /\ pr.var_id_to_col[id] <= k
                        /\ k < pr.var_id_to_col[id] + SizeOf(IdToVar(pr, id).shape)}) = 1

C8_SplitRoundTrip ==
    /\ (/\ Called("adjoint_of_split")
        /\ ColumnsPartition(prog)
        /\ (call.active_vars.isNone \/ VarIds(prog) \subseteq call.active_vars.set))
           => call.out = call.sltn
    /\ (Called("split_of_adjoint") /\ ColumnsPartition(prog))
           => /\ DOMAIN call.out = VarIds(prog)
              /\ call.out = call.del_vars

\* a 2x3 variable and a scalar: the vector is split column by column and
\* put together again
C8_Witness ==
    /\ Called("adjoint_of_split")
    /\ call.active_vars.isNone
    /\ call.sltn = <<0, 1, 0, 0, 0, 0, 1>>
    /\ call.del_vars[1] = MkArray(<<2, 3>>, <<0, 0, 0, 1, 0, 0>>)
    /\ call.del_vars[2] = MkArray(<<>>, <<1>>)
    /\ call.out = call.sltn

\* the inner product of two arrays of one shape
Inner(x, y) == SumSeq([k \in DOMAIN x.data |-> x.data[k] * y.data[k]])

\* C10: apply_param_jac is the adjoint of the Jacobian of apply_parameters:
\* <apply_param_jac(delc, delA, delb), dp> = <(delc, delA, delb), the change
\* of (c, A, b) that dp causes>; the result has one entry per active
\* parameter (all by default), none for the constant, each of its
\* parameter's shape.
C10_Adjoint ==
    Called("adjoint") =>
        LET jac == call.jac
            n == prog.x_size
            m == ConstrSize(prog.constraints)
            active == IF call.active_params.isNone THEN ParamIds(prog)
                      ELSE call.active_params.set \cap ParamIds(prog)
            lhs == SumSeq([i \in DOMAIN prog.parameters |->
                              IF prog.parameters[i].id \in DOMAIN jac
                              THEN Inner(jac[prog.parameters[i].id],
                                         call.dp[prog.parameters[i].id])
                              ELSE 0])
            dA(i, j) == At(call.moved.A, <<i, j>>) - At(call.base.A, <<i, j>>)
            rhs == SumSeq([i \in 1..n |-> call.delc[i] * (call.moved.c[i] - call.base.c[i])])
                   + SumSeq([i \in 1..m |->
                                SumSeq([j \in 1..n |->
                                           At(call.delA, <<i - 1, j - 1>>) * dA(i - 1, j - 1)])])
                   + SumSeq([i \in 1..m |-> call.delb[i] * dA(i - 1, n)])
        IN  /\ call.base.raised = "" /\ call.moved.raised = ""
            /\ DOMAIN jac = active
            /\ CONSTANT_ID \notin DOMAIN jac
            /\ \A id \in DOMAIN jac :
                   /\ jac[id].error = ""
                   /\ jac[id].shape = IdToParam(prog, id).shape
            /\ lhs = rhs

\* a perturbation of b and of the entry (1, 0) of a 2x2 parameter that meet
\* in one coefficient
C10_Witness ==
    /\ Called("adjoint")
    /\ call.active_params.isNone
    /\ DOMAIN call.jac = {4}
    /\ call.delb = <<1, 0>>
    /\ call.jac[4] = MkArray(<<2, 2>>, <<0, 0, 1, 0>>)
    /\ call.dp[4] = MkArray(<<2, 2>>, <<0, 0, 1, 0>>)
    /\ At(call.moved.A, <<0, 1>>) - At(call.base.A, <<0, 1>>) = 1

(***************************************************************************)
(* param_affine_scope_active against the with-blocks that are open.        *)
(***************************************************************************)
ParamsOf(e) == {e[i] : i \in DOMAIN e}

\* the program is inside a with-block over e (possibly inside further blocks)
InsideBlock(e) == \E k \in DOMAIN scopes : scopes[k].expr = e

\* no open with-block is over an expression with a parameter of e
OutsideBlocks(e) ==
    \A k \in DOMAIN scopes : ParamsOf(scopes[k].expr) \cap ParamsOf(e) = {}

\* C11: for any expression, param_affine_scope_active(expr) is True at every
\* point inside a with-block of treat_params_as_affine over expr, and is a
\* false value before the block is entered and after it is left.
C11_ScopeActive ==
    \A e \in Exprs :
        /\ InsideBlock(e) => ParamAffineScopeActive(e, is_constant) = PyBool(TRUE)
        /\ OutsideBlocks(e) => ~ParamAffineScopeActive(e, is_constant).truthy

====
